---- MODULE Spec2Model ----
(***************************************************************************)
(* A model of scripts/src/explore_prf.py: the assignment of image pixels   *)
(* to sources (find_pixel_offsets), the extraction of normalised PRF       *)
(* samples (get_prf_data), the zero padding of the samples for the spline  *)
(* fit (pad_prf_data), and the three applied to the regions of an image    *)
(* (extract_pixel_data).                                                   *)
(*                                                                         *)
(* Floating point numbers are modelled as exact fractions [n, d] with      *)
(* d > 0; d = 0 stands for the non-finite values: n = 0 is nan, n = 1 is   *)
(* +inf and n = -1 is -inf.  Python indices are kept 0-based in the        *)
(* values; TLA+ sequences holding arrays are 1-based.                      *)
(***************************************************************************)
EXTENDS Integers, Sequences, FiniteSets, TLC

VARIABLES
    pc,                 \* the function under execution and its position
    \* find_pixel_offsets
    sources,            \* argument: the sources, in processing order
    prf_range,          \* argument: (width, height, x_offset, y_offset)
    image_resolution,   \* argument: (y resolution, x resolution)
    crowding_distance,  \* argument
    crowded_flags,      \* local: one flag per source
    src_idx,            \* local: position of the for loop over sources
    result,             \* local: the grid of cells, returned
    shared,             \* local: the grid of shared flags
    \* get_prf_data
    pixel_values,       \* argument: flattened (row-major) patch of values
    pixel_stddev,       \* argument: flattened patch of standard deviations
    pixel_offsets,      \* argument: flattened patch of assignment cells
    error_threshold,    \* argument
    prf_measurements,   \* local
    prf_errors,         \* local
    include,            \* local
    prf_data,           \* the value returned by get_prf_data, and the
                        \* argument of pad_prf_data: a sequence of columns
                        \* (x_off, y_off, value, error)
    \* pad_prf_data
    spline_pad_fraction,    \* cmdline_args.spline_pad_fraction
    spline_pad_npoints,     \* cmdline_args.spline_pad_npoints
    keep_prf_data,      \* local: the mask of the samples kept
    num_keep,           \* local
    domain,             \* local, returned
    middle_npoints,     \* local
    padded_prf_data,    \* local, returned: a sequence of columns
    xy_padding_start,   \* local: the write cursor (0-based)
    x_iter,             \* local: position of the loop over x_offset
    y_iter,             \* local: position of the loop over y_offset
    add_mid_x,          \* local
    \* extract_pixel_data
    frame_values,       \* the image: a value per pixel
    frame_stddev,       \* the image's standard deviations, per pixel
    image_slices,       \* argument: a list of (x slice, y slice)
    slice_idx,          \* position of the loop over image_slices
    slice_prf_data,     \* the list under construction, returned
    \* get_image_slices
    splits,             \* argument: a list of (direction, value)
    sorted_splits,      \* sorted(splits)
    split_idx,          \* position of the loop over sorted(splits)
    split_slices        \* local: the slices of each direction

offsets_vars == <<sources, prf_range, image_resolution, crowding_distance,
                  crowded_flags, src_idx, result, shared>>
prf_vars == <<pixel_values, pixel_stddev, pixel_offsets, error_threshold,
              prf_measurements, prf_errors, include, prf_data>>
pad_vars == <<spline_pad_fraction, spline_pad_npoints, keep_prf_data,
              num_keep, domain, middle_npoints, padded_prf_data,
              xy_padding_start, x_iter, y_iter, add_mid_x>>
extract_vars == <<frame_values, frame_stddev, image_slices, slice_idx,
                  slice_prf_data>>
slices_vars == <<splits, sorted_splits, split_idx, split_slices>>
vars == <<pc, offsets_vars, prf_vars, pad_vars, extract_vars, slices_vars>>

----------------------------------------------------------------------------
(* float64 arithmetic, as exact fractions *)

Abs(i) == IF i < 0 THEN -i ELSE i

Sign(i) == IF i < 0 THEN -1 ELSE IF i > 0 THEN 1 ELSE 0

Max(a, b) == IF a > b THEN a ELSE b

Min(a, b) == IF a < b THEN a ELSE b

RECURSIVE Gcd(_, _)
Gcd(a, b) == IF b = 0 THEN a ELSE Gcd(b, a % b)

\* The finite number n / d, d # 0, in lowest terms with a positive denominator.
Rat(n, d) ==
    LET g == Gcd(Abs(n), Abs(d))
        s == IF d < 0 THEN -1 ELSE 1
    IN  [n |-> (s * n) \div g, d |-> (s * d) \div g]

Num(i) == [n |-> i, d |-> 1]

nan == [n |-> 0, d |-> 0]

isfinite(a) == a.d # 0

isnan(a) == a.d = 0 /\ a.n = 0

Neg(a) == [n |-> -a.n, d |-> a.d]

Add(a, b) ==
    IF isnan(a) \/ isnan(b) THEN nan
    ELSE IF isfinite(a) /\ isfinite(b) THEN Rat(a.n * b.d + b.n * a.d, a.d * b.d)
    ELSE IF isfinite(a) THEN b
    ELSE IF isfinite(b) THEN a
    ELSE IF a.n = b.n THEN a ELSE nan

Sub(a, b) == Add(a, Neg(b))

Mul(a, b) ==
    IF isnan(a) \/ isnan(b) THEN nan
    ELSE IF isfinite(a) /\ isfinite(b) THEN Rat(a.n * b.n, a.d * b.d)
    ELSE IF a.n = 0 \/ b.n = 0 THEN nan
    ELSE [n |-> Sign(a.n) * Sign(b.n), d |-> 0]

\* numpy's array division: a division by zero gives inf or nan, not an error.
Div(a, b) ==
    IF isnan(a) \/ isnan(b) THEN nan
    ELSE IF ~isfinite(a) /\ ~isfinite(b) THEN nan
    ELSE IF ~isfinite(a)
         THEN [n |-> IF b.n < 0 THEN -a.n ELSE a.n, d |-> 0]
    ELSE IF ~isfinite(b) THEN Num(0)
    ELSE IF b.n = 0 THEN (IF a.n = 0 THEN nan ELSE [n |-> Sign(a.n), d |-> 0])
    ELSE Rat(a.n * b.d, a.d * b.n)

\* a < b; every comparison with nan is false.
Less(a, b) ==
    /\ ~isnan(a)
    /\ ~isnan(b)
    /\ IF a.d = 0 /\ b.d = 0 THEN a.n < b.n ELSE a.n * b.d < b.n * a.d

LessEq(a, b) == ~isnan(a) /\ ~isnan(b) /\ ~Less(b, a)

Floor(a) == a.n \div a.d

Ceil(a) == -((-a.n) \div a.d)

----------------------------------------------------------------------------
(* find_pixel_offsets *)

\* The bound on the number of sources of a call.
MaxSources == 2

Half(k) == Rat(k, 2)

\* Source positions: on and between pixel corners, near the image's edges and
\* one far to the left of the image.
SourceXs == {Half(k) : k \in {-4, 1, 2, 3, 6}}

SourceYs == {Half(k) : k \in {2, 3}}

\* (flux, background) measurements.
SourcePhotometry == {<<Num(100), Num(5)>>, <<Num(200), Num(7)>>}

SourceSet ==
    {[x |-> px, y |-> py, flux |-> ph[1], bg |-> ph[2]] :
        px \in SourceXs, py \in SourceYs, ph \in SourcePhotometry}

PrfRanges == {<<Num(2), Num(2), Num(1), Num(1)>>}

ImageResolutions == {<<3, 4>>}

CrowdingDistances == {Num(1), Num(2)}

SeqsUpTo(S, n) == UNION {[1..k -> S] : k \in 0..n}

\* The pixels of an image, (row, column) = (y, x).
Pixels(resolution) == (0..(resolution[1] - 1)) \X (0..(resolution[2] - 1))

nan_cell == [x_off |-> nan, y_off |-> nan, norm |-> nan, zero_point |-> nan]

\* Variant of FullNan: every field of every cell starts as zero.
FullZero(resolution) ==
    [p \in Pixels(resolution) |->
        [x_off |-> Num(0), y_off |-> Num(0), norm |-> Num(0),
         zero_point |-> Num(0)]]

\* scipy.full(image_resolution, nan, dtype = the four fields)
FullNan(resolution) == [p \in Pixels(resolution) |-> nan_cell]

\* The indices start : stop selects from an axis of length n.
PySlice(start, stop, n) ==
    LET clip(i) == IF i < 0 THEN Max(i + n, 0) ELSE Min(i, n)
    IN  {i \in 0..(n - 1) : clip(start) <= i /\ i < clip(stop)}

\* The length of arange(start, stop).
ArangeLen(start, stop) == Max(stop - start, 0)

\* Whether a 1-D array of length k is assignable along an axis of length n.
Broadcasts(k, n) == k = n \/ k = 1

\* Squared distance of two sources.
Dist2(a, b) ==
    LET dx == Sub(a.x, b.x)
        dy == Sub(a.y, b.y)
    IN  Add(Mul(dx, dx), Mul(dy, dy))

\* Variant of BallCount: the ball is open (distance < r).
BallCountOpen(srcs, i, r) ==
    Cardinality({j \in 1..Len(srcs) :
                    Less(Dist2(srcs[i], srcs[j]), Mul(r, r))}
                \cup {i})

\* query_ball_point(data, r, return_length=True): for each point, the number
\* of points of the tree within distance r of it (the point itself included).
\* The tree compares squared distances with r * r, and it checks no sign of r.
BallCount(srcs, i, r) ==
    Cardinality({j \in 1..Len(srcs) :
                    LessEq(Dist2(srcs[i], srcs[j]), Mul(r, r))})

CrowdedFlags(srcs, r) == [i \in 1..Len(srcs) |-> BallCount(srcs, i, r) > 1]

MinX(s, range) == Max(Floor(Sub(s.x, range[3])), 0)

MaxX(s, range, resolution) ==
    Min(Ceil(Add(Sub(s.x, range[3]), range[1])), resolution[2])

MinY(s, range) == Max(Floor(Sub(s.y, range[4])), 0)

MaxY(s, range, resolution) ==
    Min(Ceil(Add(Sub(s.y, range[4]), range[2])), resolution[1])

\* The pixels of result[min_y : max_y, min_x : max_x].
Patch(s, range, resolution) ==
    PySlice(MinY(s, range), MaxY(s, range, resolution), resolution[1])
        \X PySlice(MinX(s, range), MaxX(s, range, resolution), resolution[2])

\* Whether the assignments to the patch's x_off and y_off have matching shapes.
PatchAssignable(s, range, resolution) ==
    /\ Broadcasts(ArangeLen(MinX(s, range), MaxX(s, range, resolution)),
                  Cardinality(PySlice(MinX(s, range),
                                      MaxX(s, range, resolution),
                                      resolution[2])))
    /\ Broadcasts(ArangeLen(MinY(s, range), MaxY(s, range, resolution)),
                  Cardinality(PySlice(MinY(s, range),
                                      MaxY(s, range, resolution),
                                      resolution[1])))

\* Variant of XOff: the offset of the pixel's corner, not of its centre.
XOffOfCorner(s, px) == Sub(Num(px), s.x)

\* The value x_off gets at column px and y_off at row py.
XOff(s, px) == Add(Sub(Num(px), s.x), Rat(1, 2))

YOff(s, py) == Add(Sub(Num(py), s.y), Rat(1, 2))

SourceCell(s, p) ==
    [x_off |-> XOff(s, p[2]), y_off |-> YOff(s, p[1]),
     norm |-> s.flux, zero_point |-> s.bg]

\* Variant of MarkShared: only a crowded source marks pixels.
MarkSharedCrowdedOnly(crowded, was_shared, cell) ==
    IF crowded THEN TRUE ELSE was_shared

\* Variant of MarkShared: a crowded source is treated as an isolated one.
MarkSharedIgnoringCrowding(crowded, was_shared, cell) ==
    was_shared \/ isfinite(cell.x_off)

\* The shared flag of a pixel of the patch after the source's turn.
MarkShared(crowded, was_shared, cell) ==
    IF crowded THEN TRUE ELSE was_shared \/ isfinite(cell.x_off)

\* Variant of Invalidated: the final pass is left out.
InvalidatedNever(is_shared, cell) == cell

\* The cell left by result[shared] = nan.
Invalidated(is_shared, cell) == IF is_shared THEN nan_cell ELSE cell

InitPrfIdle ==
    /\ pixel_values = <<>>
    /\ pixel_stddev = <<>>
    /\ pixel_offsets = <<>>
    /\ error_threshold = nan
    /\ prf_measurements = <<>>
    /\ prf_errors = <<>>
    /\ include = <<>>
    /\ prf_data = <<>>

InitSlicesIdle ==
    /\ splits = <<>>
    /\ sorted_splits = <<>>
    /\ split_idx = 1
    /\ split_slices = <<>>

InitExtractIdle ==
    /\ frame_values = <<>>
    /\ frame_stddev = <<>>
    /\ image_slices = <<>>
    /\ slice_idx = 1
    /\ slice_prf_data = <<>>

InitPadIdle ==
    /\ spline_pad_fraction = nan
    /\ spline_pad_npoints = 0
    /\ keep_prf_data = <<>>
    /\ num_keep = 0
    /\ domain = <<>>
    /\ middle_npoints = 0
    /\ padded_prf_data = <<>>
    /\ xy_padding_start = 0
    /\ x_iter = 1
    /\ y_iter = 1
    /\ add_mid_x = TRUE

InitOffsets ==
    /\ pc = "find_pixel_offsets"
    /\ sources \in SeqsUpTo(SourceSet, MaxSources)
    /\ prf_range \in PrfRanges
    /\ image_resolution \in ImageResolutions
    /\ crowding_distance \in CrowdingDistances
    /\ crowded_flags = <<>>
    /\ src_idx = 1
    /\ result = FullNan(image_resolution)
    /\ shared = [p \in Pixels(image_resolution) |-> FALSE]
    /\ InitPrfIdle
    /\ InitPadIdle
    /\ InitExtractIdle
    /\ InitSlicesIdle

QueryCrowding ==
    /\ pc = "find_pixel_offsets"
    /\ crowded_flags' = CrowdedFlags(sources, crowding_distance)
    /\ pc' = "for_source"
    /\ UNCHANGED <<sources, prf_range, image_resolution, crowding_distance,
                   src_idx, result, shared, prf_vars, pad_vars,
                   extract_vars, slices_vars>>

ProcessSource ==
    /\ pc = "for_source"
    /\ src_idx <= Len(sources)
    /\ LET this_source == sources[src_idx]
           patch == Patch(this_source, prf_range, image_resolution)
       IN  IF PatchAssignable(this_source, prf_range, image_resolution)
           THEN /\ shared' =
                       [p \in DOMAIN shared |->
                           IF p \in patch
                           THEN MarkShared(crowded_flags[src_idx], shared[p],
                                           result[p])
                           ELSE shared[p]]
                /\ result' =
                       [p \in DOMAIN result |->
                           IF p \in patch
                           THEN SourceCell(this_source, p)
                           ELSE result[p]]
                /\ src_idx' = src_idx + 1
                /\ pc' = pc
           ELSE \* ValueError: the locals are dropped as the exception leaves
                /\ pc' = "find_pixel_offsets_raised"
                /\ UNCHANGED <<shared, result, src_idx>>
    /\ UNCHANGED <<sources, prf_range, image_resolution, crowding_distance,
                   crowded_flags, prf_vars, pad_vars, extract_vars,
                   slices_vars>>

InvalidateShared ==
    /\ pc = "for_source"
    /\ src_idx > Len(sources)
    /\ result' = [p \in DOMAIN result |->
                     Invalidated(shared[p], result[p])]
    /\ pc' = "find_pixel_offsets_returned"
    /\ UNCHANGED <<sources, prf_range, image_resolution, crowding_distance,
                   crowded_flags, src_idx, shared, prf_vars, pad_vars,
                   extract_vars, slices_vars>>

NextOffsets == QueryCrowding \/ ProcessSource \/ InvalidateShared

SpecOffsets == InitOffsets /\ [][NextOffsets]_vars

----------------------------------------------------------------------------
(* get_prf_data *)

\* The bound on the number of pixels of the patch given to get_prf_data.
MaxPixels == 2

\* Pixel values: a measured value and a not-a-number (a bad pixel).
PixelValues == {Num(55), nan}

PixelStddevs == {Num(0), Num(1), Num(10)}

\* Cells of the assignment patch: an invalid cell, a cell of a source of flux
\* 100, one of a source of zero flux and one of a source of negative flux.
PatchCells ==
    {nan_cell,
     [x_off |-> Rat(1, 2), y_off |-> Rat(1, 2),
      norm |-> Num(100), zero_point |-> Num(5)],
     [x_off |-> Rat(-1, 2), y_off |-> Rat(3, 2),
      norm |-> Num(0), zero_point |-> Num(7)],
     [x_off |-> Rat(3, 2), y_off |-> Rat(-1, 2),
      norm |-> Num(-100), zero_point |-> Num(5)]}

ErrorThresholds == {Rat(1, 10), Rat(1, 100)}

PatchPixels == PixelValues \X PixelStddevs \X PatchCells

\* The elements of an array selected by a boolean mask, in the array's order.
Compress(array, mask) ==
    LET picked == SelectSeq([i \in 1..Len(array) |-> i], LAMBDA i : mask[i])
    IN  [k \in 1..Len(picked) |-> array[picked[k]]]

\* Variant of PrfMeasurement: the background is not subtracted.
PrfMeasurementWithBackground(value, cell) == Div(value, cell.norm)

PrfMeasurement(value, cell) == Div(Sub(value, cell.zero_point), cell.norm)

PrfError(stddev, cell) == Div(stddev, cell.norm)

\* Variant of Include: an error equal to the threshold is accepted.
IncludeUpToThreshold(measurement, error, threshold) ==
    /\ isfinite(measurement) /\ isfinite(error)
    /\ LessEq(error, threshold)

Include(measurement, error, threshold) ==
    /\ isfinite(measurement) /\ isfinite(error)
    /\ Less(error, threshold)

InitOffsetsIdle ==
    /\ sources = <<>>
    /\ image_resolution = <<0, 0>>
    /\ crowding_distance = nan
    /\ crowded_flags = <<>>
    /\ src_idx = 1
    /\ result = <<>>
    /\ shared = <<>>

InitPrf ==
    /\ pc = "get_prf_data"
    /\ \E patch \in SeqsUpTo(PatchPixels, MaxPixels) :
          /\ pixel_values = [i \in 1..Len(patch) |-> patch[i][1]]
          /\ pixel_stddev = [i \in 1..Len(patch) |-> patch[i][2]]
          /\ pixel_offsets = [i \in 1..Len(patch) |-> patch[i][3]]
    /\ error_threshold \in ErrorThresholds
    /\ prf_measurements = <<>>
    /\ prf_errors = <<>>
    /\ include = <<>>
    /\ prf_data = <<>>
    /\ prf_range = <<>>
    /\ InitOffsetsIdle
    /\ InitPadIdle
    /\ InitExtractIdle
    /\ InitSlicesIdle

Normalize ==
    /\ pc = "get_prf_data"
    /\ prf_measurements' =
           [i \in 1..Len(pixel_values) |->
               PrfMeasurement(pixel_values[i], pixel_offsets[i])]
    /\ prf_errors' =
           [i \in 1..Len(pixel_stddev) |->
               PrfError(pixel_stddev[i], pixel_offsets[i])]
    /\ pc' = "select"
    /\ UNCHANGED <<pixel_values, pixel_stddev, pixel_offsets, error_threshold,
                   include, prf_data, prf_range, sources, image_resolution,
                   crowding_distance, crowded_flags, src_idx, result, shared,
                   pad_vars, extract_vars, slices_vars>>

Select ==
    /\ pc = "select"
    /\ include' =
           [i \in 1..Len(prf_measurements) |->
               Include(prf_measurements[i], prf_errors[i], error_threshold)]
    /\ pc' = "stack"
    /\ UNCHANGED <<pixel_values, pixel_stddev, pixel_offsets, error_threshold,
                   prf_measurements, prf_errors, prf_data, prf_range, sources,
                   image_resolution, crowding_distance, crowded_flags, src_idx,
                   result, shared, pad_vars, extract_vars, slices_vars>>

Stack ==
    /\ pc = "stack"
    /\ prf_data' =
           Compress([i \in 1..Len(pixel_offsets) |->
                        <<pixel_offsets[i].x_off, pixel_offsets[i].y_off,
                          prf_measurements[i], prf_errors[i]>>],
                    include)
    /\ pc' = "get_prf_data_returned"
    /\ UNCHANGED <<pixel_values, pixel_stddev, pixel_offsets, error_threshold,
                   prf_measurements, prf_errors, include, prf_range, sources,
                   image_resolution, crowding_distance, crowded_flags, src_idx,
                   result, shared, pad_vars, extract_vars, slices_vars>>

NextPrf == Normalize \/ Select \/ Stack

SpecPrf == InitPrf /\ [][NextPrf]_vars

----------------------------------------------------------------------------
(* pad_prf_data *)

\* The bound on the number of samples given to pad_prf_data.
MaxSamples == 3

\* The bound on cmdline_args.spline_pad_npoints.
MaxPadNpoints == 2

\* Samples (x_off, y_off, value, error): two inside every rectangle used, one
\* on the left edge, and one that is right of the narrow rectangle and on the
\* top edge of the wide one; the samples off the inside have the smaller
\* errors.
PadSamples ==
    {<<Num(0), Num(0), Rat(1, 2), Rat(1, 100)>>,
     <<Rat(1, 2), Rat(-1, 2), Rat(1, 4), Rat(1, 50)>>,
     <<Num(-1), Num(0), Rat(1, 8), Rat(1, 200)>>,
     <<Rat(3, 2), Num(1), Rat(1, 16), Rat(1, 400)>>}

PadPrfRanges ==
    {<<Num(2), Num(2), Num(1), Num(1)>>, <<Num(3), Num(2), Num(1), Num(1)>>}

PadFractions == {Rat(3, 4), Num(2)}

\* What the slots of scipy.empty() may hold before they are written.
Uninitialized == {nan, Num(7)}

\* Variant of KeepMask: the samples on the rectangle's edges are kept too.
KeepMaskClosed(data, range) ==
    [i \in 1..Len(data) |->
        /\ LessEq(Neg(range[3]), data[i][1])
        /\ LessEq(data[i][1], Sub(range[1], range[3]))
        /\ LessEq(Neg(range[4]), data[i][2])
        /\ LessEq(data[i][2], Sub(range[2], range[4]))]

\* The mask of the samples strictly inside the unpadded rectangle.
KeepMask(data, range) ==
    [i \in 1..Len(data) |->
        /\ Less(Neg(range[3]), data[i][1])
        /\ Less(data[i][1], Sub(range[1], range[3]))
        /\ Less(Neg(range[4]), data[i][2])
        /\ Less(data[i][2], Sub(range[2], range[4]))]

\* mask.sum()
MaskSum(mask) == Cardinality({i \in 1..Len(mask) : mask[i]})

XPadding(range, fraction) == Mul(range[1], fraction)

YPadding(range, fraction) == Mul(range[2], fraction)

Domain(range, fraction) ==
    <<Sub(Neg(range[3]), XPadding(range, fraction)),
      Add(Sub(range[1], range[3]), XPadding(range, fraction)),
      Sub(Neg(range[4]), YPadding(range, fraction)),
      Add(Sub(range[2], range[4]), YPadding(range, fraction))>>

\* int(x) of a finite x: truncation toward zero.
Trunc(a) == IF a.n >= 0 THEN a.n \div a.d ELSE -((-a.n) \div a.d)

\* Variant of MiddleNpoints: the quotient is rounded up.
MiddleNpointsRoundedUp(npoints, fraction) == Ceil(Div(Num(npoints), fraction))

MiddleNpoints(npoints, fraction) == Trunc(Div(Num(npoints), fraction))

\* Variant of PaddedSize: room for one more row of padding points.
PaddedSizeOneRowMore(kept, npoints, middle) ==
    kept + 4 * npoints * (middle + npoints) + npoints

\* The number of columns of padded_prf_data.
PaddedSize(kept, npoints, middle) == kept + 4 * npoints * (middle + npoints)

\* array.min() of a non-empty array of numbers.
ArrayMin(array) ==
    CHOOSE m \in {array[i] : i \in 1..Len(array)} :
        \A i \in 1..Len(array) : LessEq(m, array[i])

\* Variant of PaddingError: the smallest error is not divided by num_keep.
PaddingErrorUndivided(kept_errors, kept) == ArrayMin(kept_errors)

\* The error given to the padding: the smallest error kept over num_keep.
PaddingError(kept_errors, kept) == Div(ArrayMin(kept_errors), Num(kept))

\* linspace(start, stop, num), num >= 1, as a sequence.
Linspace(start, stop, num) ==
    [i \in 1..num |->
        IF num = 1 THEN start
        ELSE Add(start, Div(Mul(Num(i - 1), Sub(stop, start)), Num(num - 1)))]

\* array[1:-1]
Interior(array) == [i \in 1..(Len(array) - 2) |-> array[i + 1]]

\* meshgrid(xs, ys), both flattened: the sequence of (x, y) points.
MeshFlat(xs, ys) ==
    [k \in 1..(Len(xs) * Len(ys)) |->
        <<xs[((k - 1) % Len(xs)) + 1], ys[((k - 1) \div Len(xs)) + 1]>>]

Corner(range, fraction, npoints) ==
    MeshFlat(Linspace(Num(0), XPadding(range, fraction), npoints),
             Linspace(Num(0), YPadding(range, fraction), npoints))

\* Variant of MidX: the x values are the middle points of the side with its
\* two ends, not the points strictly between them.
MidXWithEnds(range, fraction, npoints, middle) ==
    MeshFlat(Linspace(Neg(range[3]), Sub(range[1], range[3]), middle),
             Linspace(Num(0), YPadding(range, fraction), npoints))

MidX(range, fraction, npoints, middle) ==
    MeshFlat(Interior(Linspace(Neg(range[3]), Sub(range[1], range[3]),
                               middle + 2)),
             Linspace(Num(0), YPadding(range, fraction), npoints))

MidY(range, fraction, npoints, middle) ==
    MeshFlat(Linspace(Num(0), XPadding(range, fraction), npoints),
             Interior(Linspace(Neg(range[4]), Sub(range[2], range[4]),
                               middle + 2)))

\* Variant of XOffsets: the second x_offset is the Domain's right end.
XOffsetsToDomainEnd(dom, range, fraction) == <<dom[1], dom[2]>>

\* The values the loops over x_offset and y_offset take.
XOffsets(dom, range, fraction) ==
    <<dom[1], Sub(dom[2], XPadding(range, fraction))>>

YOffsets(dom, range, fraction) ==
    <<dom[3], Sub(dom[4], YPadding(range, fraction))>>

\* Whether padded[0, start : start + size] = block of size points succeeds.
BlockFits(padded, start, size) ==
    Broadcasts(size, Cardinality(PySlice(start, start + size, Len(padded))))

\* padded with rows 0 and 1 of the columns start : start + size set to the
\* block's points shifted by (dx, dy).
WriteBlock(padded, start, block, dx, dy) ==
    [k \in 1..Len(padded) |->
        IF k - 1 \in PySlice(start, start + Len(block), Len(padded))
        THEN LET point == block[IF Len(block) = 1 THEN 1 ELSE k - start]
             IN  <<Add(point[1], dx), Add(point[2], dy),
                   padded[k][3], padded[k][4]>>
        ELSE padded[k]]

\* Where the loop over y_offset goes for its iteration number iter.
YLoopEntry(iter, with_mid_x) ==
    IF iter > 2 THEN "pad_x_next"
    ELSE IF with_mid_x THEN "pad_mid_x" ELSE "pad_corner"

InitPad ==
    /\ pc = "pad_prf_data"
    /\ prf_data \in SeqsUpTo(PadSamples, MaxSamples)
    /\ prf_range \in PadPrfRanges
    /\ spline_pad_fraction \in PadFractions
    /\ spline_pad_npoints \in 1..MaxPadNpoints
    /\ keep_prf_data = <<>>
    /\ num_keep = 0
    /\ domain = <<>>
    /\ middle_npoints = 0
    /\ padded_prf_data = <<>>
    /\ xy_padding_start = 0
    /\ x_iter = 1
    /\ y_iter = 1
    /\ add_mid_x = TRUE
    /\ pixel_values = <<>>
    /\ pixel_stddev = <<>>
    /\ pixel_offsets = <<>>
    /\ error_threshold = nan
    /\ prf_measurements = <<>>
    /\ prf_errors = <<>>
    /\ include = <<>>
    /\ InitOffsetsIdle
    /\ InitExtractIdle
    /\ InitSlicesIdle

pad_unchanged ==
    <<prf_data, prf_range, spline_pad_fraction, spline_pad_npoints,
      pixel_values, pixel_stddev, pixel_offsets, error_threshold,
      prf_measurements, prf_errors, include, sources, image_resolution,
      crowding_distance, crowded_flags, src_idx, result, shared,
      extract_vars, slices_vars>>

PadFilter ==
    /\ pc = "pad_prf_data"
    /\ keep_prf_data' = KeepMask(prf_data, prf_range)
    /\ num_keep' = MaskSum(KeepMask(prf_data, prf_range))
    /\ pc' = "pad_allocate"
    /\ UNCHANGED <<domain, middle_npoints, padded_prf_data, xy_padding_start,
                   x_iter, y_iter, add_mid_x, pad_unchanged>>

PadAllocate ==
    /\ pc = "pad_allocate"
    /\ domain' = Domain(prf_range, spline_pad_fraction)
    /\ middle_npoints' = MiddleNpoints(spline_pad_npoints, spline_pad_fraction)
    /\ IF num_keep = 0
       THEN \* min() of an empty array: ValueError
            /\ pc' = "pad_prf_data_raised"
            /\ UNCHANGED <<padded_prf_data, xy_padding_start>>
       ELSE /\ \E garbage \in Uninitialized :
                  LET kept == Compress(prf_data, keep_prf_data)
                      error == PaddingError([k \in 1..Len(kept) |-> kept[k][4]],
                                            num_keep)
                      size == PaddedSize(num_keep, spline_pad_npoints,
                                         middle_npoints')
                  IN  padded_prf_data' =
                          [k \in 1..size |->
                              IF k <= num_keep THEN kept[k]
                              ELSE <<garbage, garbage, Num(0), error>>]
            /\ xy_padding_start' = num_keep
            /\ pc' = "pad_mid_y"
    /\ x_iter' = 1
    /\ add_mid_x' = TRUE
    /\ UNCHANGED <<keep_prf_data, num_keep, y_iter, pad_unchanged>>

\* The start of an iteration of the loop over x_offset.
PadMidY ==
    /\ pc = "pad_mid_y"
    /\ x_iter <= 2
    /\ LET block == MidY(prf_range, spline_pad_fraction, spline_pad_npoints,
                         middle_npoints)
           x_offset == XOffsets(domain, prf_range, spline_pad_fraction)[x_iter]
       IN  IF BlockFits(padded_prf_data, xy_padding_start, Len(block))
           THEN /\ padded_prf_data' =
                       WriteBlock(padded_prf_data, xy_padding_start, block,
                                  x_offset, Num(0))
                /\ xy_padding_start' = xy_padding_start + Len(block)
                /\ y_iter' = 1
                /\ pc' = YLoopEntry(1, add_mid_x)
           ELSE /\ pc' = "pad_prf_data_raised"
                /\ UNCHANGED <<padded_prf_data, xy_padding_start, y_iter>>
    /\ UNCHANGED <<keep_prf_data, num_keep, domain, middle_npoints, x_iter,
                   add_mid_x, pad_unchanged>>

PadMidX ==
    /\ pc = "pad_mid_x"
    /\ LET block == MidX(prf_range, spline_pad_fraction, spline_pad_npoints,
                         middle_npoints)
           y_offset == YOffsets(domain, prf_range, spline_pad_fraction)[y_iter]
       IN  IF BlockFits(padded_prf_data, xy_padding_start, Len(block))
           THEN /\ padded_prf_data' =
                       WriteBlock(padded_prf_data, xy_padding_start, block,
                                  Num(0), y_offset)
                /\ xy_padding_start' = xy_padding_start + Len(block)
                /\ pc' = "pad_corner"
           ELSE /\ pc' = "pad_prf_data_raised"
                /\ UNCHANGED <<padded_prf_data, xy_padding_start>>
    /\ UNCHANGED <<keep_prf_data, num_keep, domain, middle_npoints, x_iter,
                   y_iter, add_mid_x, pad_unchanged>>

PadCorner ==
    /\ pc = "pad_corner"
    /\ LET block == Corner(prf_range, spline_pad_fraction, spline_pad_npoints)
           x_offset == XOffsets(domain, prf_range, spline_pad_fraction)[x_iter]
           y_offset == YOffsets(domain, prf_range, spline_pad_fraction)[y_iter]
       IN  IF BlockFits(padded_prf_data, xy_padding_start, Len(block))
           THEN /\ padded_prf_data' =
                       WriteBlock(padded_prf_data, xy_padding_start, block,
                                  x_offset, y_offset)
                /\ xy_padding_start' = xy_padding_start + Len(block)
                /\ y_iter' = y_iter + 1
                /\ pc' = YLoopEntry(y_iter + 1, add_mid_x)
           ELSE /\ pc' = "pad_prf_data_raised"
                /\ UNCHANGED <<padded_prf_data, xy_padding_start, y_iter>>
    /\ UNCHANGED <<keep_prf_data, num_keep, domain, middle_npoints, x_iter,
                   add_mid_x, pad_unchanged>>

\* The end of an iteration of the loop over x_offset.
PadNextX ==
    /\ pc = "pad_x_next"
    /\ add_mid_x' = FALSE
    /\ x_iter' = x_iter + 1
    /\ pc' = IF x_iter + 1 > 2 THEN "pad_return" ELSE "pad_mid_y"
    /\ UNCHANGED <<keep_prf_data, num_keep, domain, middle_npoints,
                   padded_prf_data, xy_padding_start, y_iter, pad_unchanged>>

PadReturn ==
    /\ pc = "pad_return"
    /\ pc' = "pad_prf_data_returned"
    /\ UNCHANGED <<pad_vars, pad_unchanged>>

NextPad ==
    PadFilter \/ PadAllocate \/ PadMidY \/ PadMidX \/ PadCorner \/ PadNextX
        \/ PadReturn

SpecPad == InitPad /\ [][NextPad]_vars

----------------------------------------------------------------------------
(* extract_pixel_data *)

\* The sources given to extract_pixel_data: left and right in the image, at
\* a distance of 3/2 pixels, so that their rectangles share a column.
ExtractSources ==
    {s \in SourceSet : s.x \in {Half(3), Half(6)} /\ s.y = Half(2)}

\* cmdline_args.flux_aperture
FluxApertures == {Rat(1, 2), Num(1)}

\* The images: the same value in every pixel, and a standard deviation that
\* is one everywhere or zero everywhere.
FrameValues == {Num(55)}

FrameStddevs == {Num(0), Num(1)}

\* cmdline_args.error_threshold, spline_pad_fraction and spline_pad_npoints
ExtractErrorThresholds == {Rat(1, 10)}

ExtractPadFractions == {Num(2)}

ExtractPadNpoints == {1}

\* slice(start, stop)
Slice(start, stop) ==
    [start |-> start, stop |-> stop, stop_is_None |-> FALSE]

\* slice(start, None)
OpenSlice(start) == [start |-> start, stop |-> 0, stop_is_None |-> TRUE]

\* What get_image_slices returns for no split, for x=2 and for x=3.
ImageSliceLists ==
    {<<<<OpenSlice(0), OpenSlice(0)>>>>,
     <<<<Slice(0, 2), OpenSlice(0)>>, <<OpenSlice(2), OpenSlice(0)>>>>,
     <<<<Slice(0, 3), OpenSlice(0)>>, <<OpenSlice(3), OpenSlice(0)>>>>}

\* The indices a slice selects from an axis of length n.
SliceIndices(s, n) ==
    IF s.stop_is_None THEN PySlice(s.start, n, n)
    ELSE PySlice(s.start, s.stop, n)

\* The pixels of array[y_slice, x_slice], flattened in row-major order.
SlicePatch(x_slice, y_slice, resolution) ==
    LET rows == SliceIndices(y_slice, resolution[1])
        cols == SliceIndices(x_slice, resolution[2])
        row0 == CHOOSE r \in rows : \A q \in rows : r <= q
        col0 == CHOOSE c \in cols : \A q \in cols : c <= q
        ncols == Cardinality(cols)
    IN  [k \in 1..(Cardinality(rows) * ncols) |->
            <<row0 + ((k - 1) \div ncols), col0 + ((k - 1) % ncols)>>]

\* (slice.start + (slice.stop or n)) / 2.0
SliceCentre(s, n) ==
    Div(Num(s.start + (IF s.stop_is_None \/ s.stop = 0 THEN n ELSE s.stop)),
        Num(2))

\* The two numbers the label of a slice prints.
SliceLabel(x_slice, y_slice, resolution) ==
    <<SliceCentre(x_slice, resolution[2]), SliceCentre(y_slice, resolution[1])>>

InitExtract ==
    /\ pc = "find_pixel_offsets"
    /\ sources \in SeqsUpTo(ExtractSources, MaxSources)
    /\ prf_range \in PrfRanges
    /\ image_resolution \in ImageResolutions
    /\ crowding_distance
           \in {Mul(Num(2), aperture) : aperture \in FluxApertures}
    /\ crowded_flags = <<>>
    /\ src_idx = 1
    /\ result = FullNan(image_resolution)
    /\ shared = [p \in Pixels(image_resolution) |-> FALSE]
    /\ \E value \in FrameValues :
          frame_values = [p \in Pixels(image_resolution) |-> value]
    /\ \E stddev \in FrameStddevs :
          frame_stddev = [p \in Pixels(image_resolution) |-> stddev]
    /\ image_slices \in ImageSliceLists
    /\ slice_idx = 1
    /\ slice_prf_data = <<>>
    /\ error_threshold \in ExtractErrorThresholds
    /\ pixel_values = <<>>
    /\ pixel_stddev = <<>>
    /\ pixel_offsets = <<>>
    /\ prf_measurements = <<>>
    /\ prf_errors = <<>>
    /\ include = <<>>
    /\ prf_data = <<>>
    /\ spline_pad_fraction \in ExtractPadFractions
    /\ spline_pad_npoints \in ExtractPadNpoints
    /\ keep_prf_data = <<>>
    /\ num_keep = 0
    /\ domain = <<>>
    /\ middle_npoints = 0
    /\ padded_prf_data = <<>>
    /\ xy_padding_start = 0
    /\ x_iter = 1
    /\ y_iter = 1
    /\ add_mid_x = TRUE
    /\ InitSlicesIdle

\* The next element of the list: get_prf_data is called with the slices of
\* the image, of its standard deviations and of the assignment grid.
CallGetPrfData ==
    /\ pc \in {"find_pixel_offsets_returned", "for_slice"}
    /\ slice_idx <= Len(image_slices)
    /\ LET patch == SlicePatch(image_slices[slice_idx][1],
                               image_slices[slice_idx][2], image_resolution)
       IN  /\ pixel_values' = [i \in 1..Len(patch) |-> frame_values[patch[i]]]
           /\ pixel_stddev' = [i \in 1..Len(patch) |-> frame_stddev[patch[i]]]
           /\ pixel_offsets' = [i \in 1..Len(patch) |-> result[patch[i]]]
    /\ prf_measurements' = <<>>
    /\ prf_errors' = <<>>
    /\ include' = <<>>
    /\ prf_data' = <<>>
    /\ pc' = "get_prf_data"
    /\ UNCHANGED <<error_threshold, offsets_vars, pad_vars, extract_vars,
                   slices_vars>>

\* pad_prf_data is called with what get_prf_data returned.
CallPadPrfData ==
    /\ pc = "get_prf_data_returned"
    /\ keep_prf_data' = <<>>
    /\ num_keep' = 0
    /\ domain' = <<>>
    /\ middle_npoints' = 0
    /\ padded_prf_data' = <<>>
    /\ xy_padding_start' = 0
    /\ x_iter' = 1
    /\ y_iter' = 1
    /\ add_mid_x' = TRUE
    /\ pc' = "pad_prf_data"
    /\ UNCHANGED <<spline_pad_fraction, spline_pad_npoints, offsets_vars,
                   prf_vars, extract_vars, slices_vars>>

\* The element for the slice is appended to the list.
CollectSlice ==
    /\ pc = "pad_prf_data_returned"
    /\ slice_prf_data' =
           Append(slice_prf_data,
                  <<<<padded_prf_data, domain>>,
                    SliceLabel(image_slices[slice_idx][1],
                               image_slices[slice_idx][2],
                               image_resolution)>>)
    /\ slice_idx' = slice_idx + 1
    /\ pc' = "for_slice"
    /\ UNCHANGED <<frame_values, frame_stddev, image_slices, offsets_vars,
                   prf_vars, pad_vars, slices_vars>>

\* An exception of pad_prf_data leaves extract_pixel_data: nothing catches
\* it, and the list under construction is dropped.
PropagateError ==
    /\ pc = "pad_prf_data_raised"
    /\ slice_prf_data' = <<>>
    /\ pc' = "extract_pixel_data_raised"
    /\ UNCHANGED <<frame_values, frame_stddev, image_slices, slice_idx,
                   offsets_vars, prf_vars, pad_vars, slices_vars>>

ExtractReturn ==
    /\ pc = "for_slice"
    /\ slice_idx > Len(image_slices)
    /\ pc' = "extract_pixel_data_returned"
    /\ UNCHANGED <<offsets_vars, prf_vars, pad_vars, extract_vars, slices_vars>>

NextExtract ==
    NextOffsets \/ CallGetPrfData \/ NextPrf \/ CallPadPrfData \/ NextPad
        \/ CollectSlice \/ PropagateError \/ ExtractReturn

SpecExtract == InitExtract /\ [][NextExtract]_vars

----------------------------------------------------------------------------
(* find_pixel_offsets, called with any prf_range and crowding_distance *)

\* Sources in the image, on and between pixel corners.
AnyConfigSources ==
    {s \in SourceSet : s.x \in {Half(3), Half(6)} /\ s.flux = Num(100)}

\* A usual prf_range, and ones of zero width, zero height and negative width.
AnyPrfRanges ==
    {<<Num(2), Num(2), Num(1), Num(1)>>, <<Num(0), Num(2), Num(1), Num(1)>>,
     <<Num(2), Num(0), Num(1), Num(1)>>, <<Num(-1), Num(2), Num(1), Num(1)>>}

AnyCrowdingDistances == {Num(1), Num(-1)}

InitOffsetsAnyConfig ==
    /\ pc = "find_pixel_offsets"
    /\ sources \in SeqsUpTo(AnyConfigSources, MaxSources)
    /\ prf_range \in AnyPrfRanges
    /\ image_resolution \in ImageResolutions
    /\ crowding_distance \in AnyCrowdingDistances
    /\ crowded_flags = <<>>
    /\ src_idx = 1
    /\ result = FullNan(image_resolution)
    /\ shared = [p \in Pixels(image_resolution) |-> FALSE]
    /\ InitPrfIdle
    /\ InitPadIdle
    /\ InitExtractIdle
    /\ InitSlicesIdle

SpecOffsetsAnyConfig == InitOffsetsAnyConfig /\ [][NextOffsets]_vars

----------------------------------------------------------------------------
(* get_image_slices *)

\* The bound on the number of --split-image options.
MaxSplits == 3

\* The values of the splits: inside the image in both directions, and one
\* negative value.
SplitValues == {-1, 1, 2}

\* What parse_image_split returns: (direction, value).
SplitSet == {"x", "y"} \X SplitValues

\* The order of tuples (direction, value): by direction, "x" before "y",
\* then by value.
SplitBefore(a, b) ==
    \/ a[1] = "x" /\ b[1] = "y"
    \/ a[1] = b[1] /\ a[2] < b[2]

\* A sorted list with one more element, put after the elements not above it.
Insert(list, element) ==
    LET k == Cardinality({i \in 1..Len(list) :
                             ~SplitBefore(element, list[i])})
    IN  SubSeq(list, 1, k) \o <<element>> \o SubSeq(list, k + 1, Len(list))

\* Variant of Sorted: the list is taken in the order given.
AsGiven(list) == list

\* sorted(list)
RECURSIVE Sorted(_)
Sorted(list) ==
    IF list = <<>> THEN <<>>
    ELSE Insert(Sorted(SubSeq(list, 1, Len(list) - 1)), list[Len(list)])

\* The body of the loop: the last slice of the split's direction ends at the
\* value, and a slice from the value on is appended.
ApplySplit(slices, split) ==
    LET direction == split[1]
        value == split[2]
        current == slices[direction]
        last == current[Len(current)]
    IN  [slices EXCEPT
            ![direction] =
                Append([current EXCEPT ![Len(current)] =
                                           Slice(last.start, value)],
                       OpenSlice(value))]

\* [(x_split, y_split) for x_split in slices['x'] for y_split in slices['y']]
SliceProduct(slices) ==
    [k \in 1..(Len(slices.x) * Len(slices.y)) |->
        <<slices.x[((k - 1) \div Len(slices.y)) + 1],
          slices.y[((k - 1) % Len(slices.y)) + 1]>>]

\* image_resolution is the resolution of the image the slices are applied
\* to by extract_pixel_data.
InitSlices ==
    /\ pc = "get_image_slices"
    /\ splits \in SeqsUpTo(SplitSet, MaxSplits)
    /\ sorted_splits = <<>>
    /\ split_idx = 1
    /\ split_slices = <<>>
    /\ image_resolution \in ImageResolutions
    /\ sources = <<>>
    /\ prf_range = <<>>
    /\ crowding_distance = nan
    /\ crowded_flags = <<>>
    /\ src_idx = 1
    /\ result = <<>>
    /\ shared = <<>>
    /\ InitPrfIdle
    /\ InitPadIdle
    /\ InitExtractIdle

StartSplits ==
    /\ pc = "get_image_slices"
    /\ split_slices' = [x |-> <<OpenSlice(0)>>, y |-> <<OpenSlice(0)>>]
    /\ sorted_splits' = Sorted(splits)
    /\ pc' = "for_split"
    /\ UNCHANGED <<splits, split_idx, offsets_vars, prf_vars, pad_vars,
                   extract_vars>>

SplitImage ==
    /\ pc = "for_split"
    /\ split_idx <= Len(sorted_splits)
    /\ split_slices' = ApplySplit(split_slices, sorted_splits[split_idx])
    /\ split_idx' = split_idx + 1
    /\ pc' = pc
    /\ UNCHANGED <<splits, sorted_splits, offsets_vars, prf_vars, pad_vars,
                   extract_vars>>

ReturnSlices ==
    /\ pc = "for_split"
    /\ split_idx > Len(sorted_splits)
    /\ image_slices' = SliceProduct(split_slices)
    /\ pc' = "get_image_slices_returned"
    /\ UNCHANGED <<frame_values, frame_stddev, slice_idx, slice_prf_data,
                   slices_vars, offsets_vars, prf_vars, pad_vars>>

NextSlices == StartSplits \/ SplitImage \/ ReturnSlices

SpecSlices == InitSlices /\ [][NextSlices]_vars

----------------------------------------------------------------------------
(* Properties of find_pixel_offsets, checked under SpecOffsets *)

OffsetsReturned == pc = "find_pixel_offsets_returned"

\* The image pixels of source number i's extraction rectangle.
RectOf(i) ==
    LET s == sources[i]
        left == Sub(s.x, prf_range[3])
        bottom == Sub(s.y, prf_range[4])
    IN  {p \in Pixels(image_resolution) :
            /\ Floor(left) <= p[2]
            /\ p[2] < Ceil(Add(left, prf_range[1]))
            /\ Floor(bottom) <= p[1]
            /\ p[1] < Ceil(Add(bottom, prf_range[2]))}

\* Source number i has another source within the crowding distance.
HasCloseNeighbour(i) ==
    \E j \in 1..Len(sources) :
        /\ j # i
        /\ LessEq(Dist2(sources[i], sources[j]),
                  Mul(crowding_distance, crowding_distance))

\* Source number i's rectangle shares no pixel with another source's.
OverlapsNone(i) ==
    \A j \in 1..Len(sources) : j # i => RectOf(i) \cap RectOf(j) = {}

ValidCell(cell) ==
    /\ isfinite(cell.x_off) /\ isfinite(cell.y_off)
    /\ isfinite(cell.norm) /\ isfinite(cell.zero_point)

\* C1: in the returned grid, every pixel of the rectangle of a source that is
\* not crowded and overlaps no other rectangle holds x_off = px - x + 0.5,
\* y_off = py - y + 0.5, norm = the source's flux, zero_point = its background.
C1_IsolatedSourceCells ==
    OffsetsReturned =>
        \A i \in 1..Len(sources) :
            (~HasCloseNeighbour(i) /\ OverlapsNone(i)) =>
                \A p \in RectOf(i) :
                    result[p] =
                        [x_off |-> Add(Sub(Num(p[2]), sources[i].x), Rat(1, 2)),
                         y_off |-> Add(Sub(Num(p[1]), sources[i].y), Rat(1, 2)),
                         norm |-> sources[i].flux,
                         zero_point |-> sources[i].bg]

\* Two sources, the first isolated with a rectangle of several pixels, one of
\* them at offset (0.5, 0.5).
C1_Witness ==
    /\ OffsetsReturned
    /\ Len(sources) = 2
    /\ ~HasCloseNeighbour(1) /\ OverlapsNone(1)
    /\ Cardinality(RectOf(1)) >= 4
    /\ \E p \in RectOf(1) :
          /\ result[p].x_off = Rat(1, 2)
          /\ result[p].y_off = Rat(1, 2)
          /\ result[p].norm = Num(100)
          /\ result[p].zero_point = Num(5)

C3_ValidIffSingleOwner ==
    OffsetsReturned =>
        \A p \in Pixels(image_resolution) :
            LET owners == {i \in 1..Len(sources) : p \in RectOf(i)}
            IN  IF Cardinality(owners) = 1
                   /\ \A i \in owners : ~HasCloseNeighbour(i)
                THEN ValidCell(result[p])
                ELSE result[p] = nan_cell

\* A grid with a valid pixel, a pixel in no rectangle and a pixel in two.
C3_Witness ==
    /\ OffsetsReturned
    /\ \E p \in Pixels(image_resolution) : ValidCell(result[p])
    /\ \E p \in Pixels(image_resolution) :
          \A i \in 1..Len(sources) : p \notin RectOf(i)
    /\ \E p \in Pixels(image_resolution) :
          Cardinality({i \in 1..Len(sources) : p \in RectOf(i)}) = 2

C5_CrowdedRectInvalid ==
    OffsetsReturned =>
        \A i \in 1..Len(sources) :
            HasCloseNeighbour(i) => \A p \in RectOf(i) : result[p] = nan_cell

\* Two crowded sources whose rectangles are disjoint.
C5_Witness ==
    /\ OffsetsReturned
    /\ Len(sources) = 2
    /\ HasCloseNeighbour(1)
    /\ RectOf(1) # {} /\ RectOf(2) # {}
    /\ RectOf(1) \cap RectOf(2) = {}
    /\ \A p \in RectOf(1) \cup RectOf(2) : result[p] = nan_cell

\* C14: a call with zero sources raises no error, and the grid it returns
\* has the image's shape and nan in every field of every pixel.
C14_NoSourceAllInvalid ==
    Len(sources) = 0 =>
        /\ pc # "find_pixel_offsets_raised"
        /\ OffsetsReturned =>
               /\ DOMAIN result =
                      (0..(image_resolution[1] - 1))
                          \X (0..(image_resolution[2] - 1))
               /\ \A p \in DOMAIN result :
                      /\ isnan(result[p].x_off) /\ isnan(result[p].y_off)
                      /\ isnan(result[p].norm) /\ isnan(result[p].zero_point)

\* The call with no source has returned its grid.
C14_Witness ==
    /\ OffsetsReturned
    /\ sources = <<>>
    /\ crowded_flags = <<>>
    /\ Cardinality(DOMAIN result) = image_resolution[1] * image_resolution[2]

\* C17 as stated: no source makes the call fail, and while the sources are
\* processed the pixels flagged as shared or written so far are pixels of
\* the rectangles (clipped to the image) of the sources processed so far,
\* each pixel of which has been written.
C17_RectangleClippedToImage ==
    /\ pc # "find_pixel_offsets_raised"
    /\ pc = "for_source" =>
          LET done == UNION {RectOf(i) : i \in 1..(src_idx - 1)}
          IN  \A p \in Pixels(image_resolution) :
                  /\ (shared[p] \/ result[p] # nan_cell) => p \in done
                  /\ p \in done => result[p] # nan_cell

----------------------------------------------------------------------------
(* Properties of get_prf_data, checked under SpecPrf *)

PrfReturned == pc = "get_prf_data_returned"

\* The normalised value and error of pixel number i of the patch.
NormalizedValue(i) ==
    Div(Sub(pixel_values[i], pixel_offsets[i].zero_point), pixel_offsets[i].norm)

NormalizedError(i) == Div(pixel_stddev[i], pixel_offsets[i].norm)

\* Pixel number i's sample is to be kept.
ToKeep(i) ==
    /\ isfinite(NormalizedValue(i))
    /\ isfinite(NormalizedError(i))
    /\ Less(NormalizedError(i), error_threshold)

\* The pixels to keep, in the patch's order.
KeptPixels ==
    SelectSeq([i \in 1..Len(pixel_values) |-> i], LAMBDA i : ToKeep(i))

\* C6: get_prf_data keeps a pixel's sample iff its normalised value and error
\* are finite and the error is strictly below error_threshold; no returned
\* sample has a non-finite value or error or an error >= error_threshold.
C6_KeepsIffFiniteAndBelowThreshold ==
    PrfReturned =>
        /\ \A i \in 1..Len(pixel_values) : include[i] <=> ToKeep(i)
        /\ Len(prf_data) = Cardinality({i \in 1..Len(pixel_values) : ToKeep(i)})
        /\ \A k \in 1..Len(prf_data) :
              /\ isfinite(prf_data[k][3])
              /\ isfinite(prf_data[k][4])
              /\ ~LessEq(error_threshold, prf_data[k][4])

\* A patch with a kept pixel and with a pixel dropped because its error
\* equals the threshold.
C6_Witness ==
    /\ PrfReturned
    /\ Len(prf_data) = 1
    /\ \E i \in 1..Len(pixel_values) :
          /\ isfinite(NormalizedValue(i))
          /\ NormalizedError(i) = error_threshold
          /\ ~include[i]

\* C7: the k-th returned sample is (x_off, y_off, (value - zero_point) / norm,
\* stddev / norm) of the k-th kept pixel.
C7_SampleOfItsPixel ==
    PrfReturned =>
        /\ Len(prf_data) = Len(KeptPixels)
        /\ \A k \in 1..Len(prf_data) :
              prf_data[k] =
                  <<pixel_offsets[KeptPixels[k]].x_off,
                    pixel_offsets[KeptPixels[k]].y_off,
                    NormalizedValue(KeptPixels[k]),
                    NormalizedError(KeptPixels[k])>>

\* Value 55, stddev 1, zero point 5, norm 100 give the sample (0.5, 0.01),
\* returned after a pixel that was dropped.
C7_Witness ==
    /\ PrfReturned
    /\ Len(pixel_values) = 2
    /\ ~include[1]
    /\ pixel_values[2] = Num(55) /\ pixel_stddev[2] = Num(1)
    /\ pixel_offsets[2].zero_point = Num(5) /\ pixel_offsets[2].norm = Num(100)
    /\ prf_data = <<<<Rat(1, 2), Rat(1, 2), Rat(1, 2), Rat(1, 100)>>>>

----------------------------------------------------------------------------
(* Properties of pad_prf_data, checked under SpecPad *)

PadReturned == pc = "pad_prf_data_returned"

\* A sample lies strictly inside the unpadded rectangle.
StrictlyInside(sample) ==
    /\ Less(Neg(prf_range[3]), sample[1])
    /\ Less(sample[1], Sub(prf_range[1], prf_range[3]))
    /\ Less(Neg(prf_range[4]), sample[2])
    /\ Less(sample[2], Sub(prf_range[2], prf_range[4]))

\* The real samples the padder is to keep, in their input order.
RealSamples == SelectSeq(prf_data, StrictlyInside)

\* The synthetic part of the output: what follows the real samples.
SyntheticSlots == (Len(RealSamples) + 1)..Len(padded_prf_data)

\* pad_npoints / pad_fraction, as a number.
ExactMiddle == Div(Num(spline_pad_npoints), spline_pad_fraction)

\* C8 as stated: the output holds (kept real samples) + 4 * pad_npoints^2
\* + 4 * pad_npoints * middle_npoints samples with
\* middle_npoints = pad_npoints / pad_fraction.
C8_CountWithExactQuotient ==
    PadReturned =>
        Num(Len(padded_prf_data)) =
            Add(Num(Len(RealSamples)
                    + 4 * spline_pad_npoints * spline_pad_npoints),
                Mul(Num(4 * spline_pad_npoints), ExactMiddle))

\* C8, amended: the same count with
\* middle_npoints = floor(pad_npoints / pad_fraction).
C8_CountWithTruncatedQuotient ==
    PadReturned =>
        Len(padded_prf_data) =
            Len(RealSamples)
            + 4 * spline_pad_npoints * spline_pad_npoints
            + 4 * spline_pad_npoints * Floor(ExactMiddle)

\* A call whose pad_npoints / pad_fraction is no integer, with a kept and a
\* dropped sample.
C8_Witness ==
    /\ PadReturned
    /\ Num(Floor(ExactMiddle)) # ExactMiddle
    /\ Floor(ExactMiddle) >= 1
    /\ Len(RealSamples) = 1
    /\ Len(prf_data) = 2

\* C9: the output starts with exactly the input samples strictly inside the
\* unpadded rectangle, in input order and unchanged; what follows them is
\* synthetic (zero valued).
C9_RealSamplesLead ==
    PadReturned =>
        /\ Len(padded_prf_data) >= Len(RealSamples)
        /\ SubSeq(padded_prf_data, 1, Len(RealSamples)) = RealSamples
        /\ \A k \in SyntheticSlots : padded_prf_data[k][3] = Num(0)

\* A sample on the rectangle's edge is dropped and the one after it is kept.
C9_Witness ==
    /\ PadReturned
    /\ Len(prf_data) = 2
    /\ prf_data[1][1] = Neg(prf_range[3])
    /\ StrictlyInside(prf_data[2])
    /\ padded_prf_data[1] = prf_data[2]
    /\ Len(padded_prf_data) > 1

\* The smallest error among the real samples.
SmallestRealError ==
    CHOOSE e \in {RealSamples[k][4] : k \in 1..Len(RealSamples)} :
        \A k \in 1..Len(RealSamples) : ~Less(RealSamples[k][4], e)

\* C10: every synthetic sample has value 0 and error (smallest error of the
\* kept real samples) / (number of kept real samples).
C10_SyntheticValueAndError ==
    PadReturned =>
        \A k \in SyntheticSlots :
            /\ padded_prf_data[k][3] = Num(0)
            /\ padded_prf_data[k][4] =
                   Div(SmallestRealError, Num(Len(RealSamples)))

\* Two kept samples and a dropped one whose error is the smallest of all.
C10_Witness ==
    /\ PadReturned
    /\ Len(RealSamples) = 2
    /\ RealSamples[1][4] # RealSamples[2][4]
    /\ \E i \in 1..Len(prf_data) :
          /\ ~StrictlyInside(prf_data[i])
          /\ Less(prf_data[i][4], SmallestRealError)
    /\ SyntheticSlots # {}

\* C11: a call from whose samples none lies strictly inside the unpadded
\* rectangle (an empty input included) goes from the filter straight to the
\* error: it allocates and returns no padded set, so no synthetic error is
\* ever a quotient by a zero count.
C11_NoRealSampleRaises ==
    Len(RealSamples) = 0 =>
        /\ pc \in {"pad_prf_data", "pad_allocate", "pad_prf_data_raised"}
        /\ padded_prf_data = <<>>

\* Two samples, both dropped by the filter, and the call has raised.
C11_Witness ==
    /\ pc = "pad_prf_data_raised"
    /\ Len(prf_data) = 2
    /\ Len(RealSamples) = 0
    /\ num_keep = 0

\* The Domain: the unpadded rectangle grown by pad_fraction * width to the
\* left and to the right and by pad_fraction * height below and above, as
\* <<x min, x max, y min, y max>>.
GrownRectangle ==
    LET dx == Mul(spline_pad_fraction, prf_range[1])
        dy == Mul(spline_pad_fraction, prf_range[2])
    IN  <<Sub(Neg(prf_range[3]), dx),
          Add(Sub(prf_range[1], prf_range[3]), dx),
          Sub(Neg(prf_range[4]), dy),
          Add(Sub(prf_range[2], prf_range[4]), dy)>>

\* C18: every synthetic point of the output lies in the Domain, its bounds
\* included, and not strictly inside the unpadded rectangle; so none has the
\* offsets of a kept real sample.
C18_SyntheticInDomainOffRectangle ==
    PadReturned =>
        \A k \in SyntheticSlots :
            LET point == padded_prf_data[k]
            IN  /\ LessEq(GrownRectangle[1], point[1])
                /\ LessEq(point[1], GrownRectangle[2])
                /\ LessEq(GrownRectangle[3], point[2])
                /\ LessEq(point[2], GrownRectangle[4])
                /\ ~StrictlyInside(point)
                /\ \A j \in 1..Len(RealSamples) :
                      <<point[1], point[2]>>
                          # <<RealSamples[j][1], RealSamples[j][2]>>

\* A padding with strips and a real sample: one synthetic point is on the
\* left edge of the unpadded rectangle, one is a corner of the Domain.
C18_Witness ==
    /\ PadReturned
    /\ Len(RealSamples) >= 1
    /\ middle_npoints >= 1
    /\ \E k \in SyntheticSlots :
          /\ padded_prf_data[k][1] = Neg(prf_range[3])
          /\ Less(Neg(prf_range[4]), padded_prf_data[k][2])
          /\ Less(padded_prf_data[k][2], Sub(prf_range[2], prf_range[4]))
    /\ \E k \in SyntheticSlots :
          /\ padded_prf_data[k][1] = GrownRectangle[2]
          /\ padded_prf_data[k][2] = GrownRectangle[4]

\* The synthetic slots whose point is left of, within or right of the
\* unpadded rectangle's x range (side -1, 0, 1), and the same in y.
SlotsAt(x_side, y_side) ==
    LET side(v, low, high) ==
            IF LessEq(v, low) THEN -1 ELSE IF LessEq(high, v) THEN 1 ELSE 0
    IN  {k \in SyntheticSlots :
            /\ side(padded_prf_data[k][1], Neg(prf_range[3]),
                    Sub(prf_range[1], prf_range[3])) = x_side
            /\ side(padded_prf_data[k][2], Neg(prf_range[4]),
                    Sub(prf_range[2], prf_range[4])) = y_side}

\* C19: no two synthetic points of the output have the same offsets; each of
\* the four corners around the unpadded rectangle holds pad_npoints^2 of
\* them, each of the four strips along its sides holds
\* pad_npoints * middle_npoints, and none is within the rectangle.
C19_SyntheticPointsDistinct ==
    PadReturned =>
        /\ \A j, k \in SyntheticSlots :
              j # k =>
                  <<padded_prf_data[j][1], padded_prf_data[j][2]>>
                      # <<padded_prf_data[k][1], padded_prf_data[k][2]>>
        /\ \A x_side, y_side \in {-1, 1} :
              Cardinality(SlotsAt(x_side, y_side))
                  = spline_pad_npoints * spline_pad_npoints
        /\ \A side \in {-1, 1} :
              /\ Cardinality(SlotsAt(0, side))
                     = spline_pad_npoints * Floor(ExactMiddle)
              /\ Cardinality(SlotsAt(side, 0))
                     = spline_pad_npoints * Floor(ExactMiddle)
        /\ SlotsAt(0, 0) = {}

\* A padding of two points per padding width with strips of more than one
\* point along the sides, around a real sample.
C19_Witness ==
    /\ PadReturned
    /\ Len(RealSamples) >= 1
    /\ spline_pad_npoints = 2
    /\ middle_npoints = 2
    /\ Cardinality(SlotsAt(0, -1)) = 4
    /\ Cardinality(SlotsAt(1, 1)) = 4

\* pad_prf_data is past the allocation of its output buffer.
Filling ==
    pc \in {"pad_mid_y", "pad_mid_x", "pad_corner", "pad_x_next",
            "pad_return", "pad_prf_data_returned"}

\* The cursor is between the kept count and the buffer's end; the x and y of
\* the synthetic slots before it are written and those from it on are as
\* allocated; after the loops it is the buffer's length; and no write fails,
\* the only error being the one of a call without real samples.
CursorInBuffer ==
    /\ Filling =>
          /\ Len(RealSamples) <= xy_padding_start
          /\ xy_padding_start <= Len(padded_prf_data)
          /\ \A k \in SyntheticSlots :
                IF k <= xy_padding_start
                THEN /\ isfinite(padded_prf_data[k][1])
                     /\ isfinite(padded_prf_data[k][2])
                ELSE /\ padded_prf_data[k][1] \in Uninitialized
                     /\ padded_prf_data[k][2] \in Uninitialized
          /\ pc \in {"pad_return", "pad_prf_data_returned"} =>
                xy_padding_start = Len(padded_prf_data)
    /\ pc = "pad_prf_data_raised" => Len(RealSamples) = 0

\* A step of the fill moves the cursor forward by the number of slots it
\* writes: it changes no slot before the old cursor and none from the new
\* cursor on, and it keeps the buffer's length.
CursorStep ==
    Filling =>
        /\ xy_padding_start' >= xy_padding_start
        /\ Len(padded_prf_data') = Len(padded_prf_data)
        /\ \A k \in 1..Len(padded_prf_data) :
              (k <= xy_padding_start \/ k > xy_padding_start') =>
                  padded_prf_data'[k] = padded_prf_data[k]

\* C20: the fill loop of pad_prf_data writes the x and y of every synthetic
\* slot exactly once: the cursor starts at the kept count, moves by the size
\* of each block written, stays within the buffer and ends at its length.
C20_EverySlotWrittenOnce == [](CursorInBuffer) /\ [][CursorStep]_vars

\* The buffer was allocated with nan in its padding, more than one block has
\* been written into it, and the call has returned it all written.
C20_Witness ==
    /\ PadReturned
    /\ Len(RealSamples) = 2
    /\ middle_npoints >= 1
    /\ xy_padding_start = Len(padded_prf_data)
    /\ xy_padding_start > Len(RealSamples)

----------------------------------------------------------------------------
(* Properties of extract_pixel_data, checked under SpecExtract *)

ExtractEnded ==
    pc \in {"extract_pixel_data_returned", "extract_pixel_data_raised"}

\* The sources whose rectangle holds pixel p.
OwnersOf(p) == {i \in 1..Len(sources) : p \in RectOf(i)}

\* Pixel p is assigned: it is in the rectangle of exactly one source, and
\* that source is not crowded.
AssignedPixel(p) ==
    /\ Cardinality(OwnersOf(p)) = 1
    /\ \A i \in OwnersOf(p) : ~HasCloseNeighbour(i)

\* The sample an assigned pixel p gives: its offsets from its source, and
\* its value and standard deviation normalised by that source.
SampleOf(p) ==
    LET s == sources[CHOOSE i \in OwnersOf(p) : TRUE]
    IN  <<Add(Sub(Num(p[2]), s.x), Rat(1, 2)),
          Add(Sub(Num(p[1]), s.y), Rat(1, 2)),
          Div(Sub(frame_values[p], s.bg), s.flux),
          Div(frame_stddev[p], s.flux)>>

\* The pixels of image region number k.
RegionPixels(k) ==
    {p \in Pixels(image_resolution) :
        /\ p[2] \in SliceIndices(image_slices[k][1], image_resolution[2])
        /\ p[1] \in SliceIndices(image_slices[k][2], image_resolution[1])}

\* Region number k has a real sample for the padder: an assigned pixel with
\* a finite value and an error below the threshold, strictly inside the
\* unpadded rectangle.
RegionHasRealSample(k) ==
    \E p \in RegionPixels(k) :
        /\ AssignedPixel(p)
        /\ isfinite(SampleOf(p)[3]) /\ isfinite(SampleOf(p)[4])
        /\ Less(SampleOf(p)[4], error_threshold)
        /\ StrictlyInside(SampleOf(p))

\* C12 as stated: once the call has ended, every region that has real
\* samples has its result in the list, whether or not the processing of
\* another region has failed.
C12_OtherRegionsProduced ==
    ExtractEnded =>
        \A k \in 1..Len(image_slices) :
            RegionHasRealSample(k) =>
                \E j \in 1..Len(slice_prf_data) :
                    slice_prf_data[j][2] =
                        SliceLabel(image_slices[k][1], image_slices[k][2],
                                   image_resolution)

\* C15 as stated: whenever pad_prf_data returns for samples that
\* get_prf_data returned, the error of every synthetic sample is a finite
\* number above zero.
C15_SyntheticErrorPositive ==
    (PadReturned /\ Len(RealSamples) >= 1) =>
        \A k \in SyntheticSlots :
            /\ isfinite(padded_prf_data[k][4])
            /\ Less(Num(0), padded_prf_data[k][4])

\* get_prf_data has returned the samples of region number slice_idx.
RegionExtracted == pc = "get_prf_data_returned"

\* C16: every sample get_prf_data returns for a region of the image is the
\* sample of an assigned pixel of that region, and every pixel it includes
\* is assigned: no pixel left unassigned, lying in two rectangles or in a
\* crowded source's rectangle gives a sample, whatever was written to its
\* cell while the sources were processed.
C16_SamplesOfAssignedPixelsOnly ==
    RegionExtracted =>
        LET patch == SlicePatch(image_slices[slice_idx][1],
                                image_slices[slice_idx][2], image_resolution)
            assigned == {p \in RegionPixels(slice_idx) : AssignedPixel(p)}
        IN  /\ \A i \in 1..Len(include) : include[i] => patch[i] \in assigned
            /\ Len(prf_data) <= Cardinality(assigned)
            /\ \A j \in 1..Len(prf_data) :
                  \E p \in assigned : prf_data[j] = SampleOf(p)

\* A region with samples and with a pixel in the rectangles of two sources
\* that are not crowded; the pixel's value and standard deviation would pass
\* the selection.
C16_Witness ==
    /\ RegionExtracted
    /\ Len(prf_data) >= 1
    /\ \E p \in RegionPixels(slice_idx) :
          /\ Cardinality(OwnersOf(p)) = 2
          /\ \A i \in OwnersOf(p) :
                /\ ~HasCloseNeighbour(i)
                /\ Less(Div(frame_stddev[p], sources[i].flux),
                        error_threshold)
                /\ isfinite(Div(Sub(frame_values[p], sources[i].bg),
                                sources[i].flux))

----------------------------------------------------------------------------
(* Properties of find_pixel_offsets, checked under SpecOffsetsAnyConfig *)

\* The configuration the call was given is one to reject.
BadConfiguration ==
    \/ LessEq(prf_range[1], Num(0))
    \/ LessEq(prf_range[2], Num(0))
    \/ Less(crowding_distance, Num(0))

\* C13 as stated: a call with a prf_range of non-positive width or height,
\* or with a negative crowding_distance, never returns a grid holding valid
\* cells.
C13_BadConfigurationGivesNoValidCell ==
    (OffsetsReturned /\ BadConfiguration) =>
        \A p \in Pixels(image_resolution) : ~ValidCell(result[p])

----------------------------------------------------------------------------
(* Properties of get_image_slices, checked under SpecSlices *)

SlicesReturned == pc = "get_image_slices_returned"

\* The number of splits given for a direction.
SplitCount(direction) ==
    Cardinality({i \in 1..Len(splits) : splits[i][1] = direction})

\* Every split value is inside the image: 0 < value < resolution of its
\* direction.
SplitsInsideImage ==
    \A i \in 1..Len(splits) :
        /\ 0 < splits[i][2]
        /\ splits[i][2] < (IF splits[i][1] = "x" THEN image_resolution[2]
                           ELSE image_resolution[1])

\* The slices of a direction are contiguous and ascending: the first starts
\* at 0, each but the last ends where the next starts and not before its own
\* start, and the last is open ended.
Contiguous(slices) ==
    /\ slices[1].start = 0
    /\ slices[Len(slices)].stop_is_None
    /\ \A j \in 1..(Len(slices) - 1) :
          /\ ~slices[j].stop_is_None
          /\ slices[j].start <= slices[j].stop
          /\ slices[j].stop = slices[j + 1].start

\* C21: for splits inside the image, given in any order, the regions
\* returned number (x splits + 1) * (y splits + 1), they are the pairs of an
\* x slice and a y slice, the slices of each direction are contiguous and
\* ascending, and every pixel of the image is in exactly one region.
C21_RegionsTileImage ==
    (SlicesReturned /\ SplitsInsideImage) =>
        LET nx == SplitCount("x") + 1
            ny == SplitCount("y") + 1
            xs == [a \in 1..nx |-> image_slices[(a - 1) * ny + 1][1]]
            ys == [b \in 1..ny |-> image_slices[b][2]]
        IN  /\ Len(image_slices) = nx * ny
            /\ \A a \in 1..nx, b \in 1..ny :
                  image_slices[(a - 1) * ny + b] = <<xs[a], ys[b]>>
            /\ Contiguous(xs)
            /\ Contiguous(ys)
            /\ \A p \in Pixels(image_resolution) :
                  Cardinality({k \in 1..Len(image_slices) :
                                  p \in RegionPixels(k)}) = 1

\* Splits in both directions, the x ones given in descending order after the
\* y one: six regions are returned.
C21_Witness ==
    /\ SlicesReturned
    /\ splits = <<<<"y", 1>>, <<"x", 2>>, <<"x", 1>>>>
    /\ Len(image_slices) = 6
    /\ image_slices[3] = <<Slice(1, 2), Slice(0, 1)>>
    /\ image_slices[4] = <<Slice(1, 2), OpenSlice(1)>>

====
